---- MODULE Spec2Model ----
(***************************************************************************)
(* Decision Partner (src/app.py): the invocation layer call_llm, the four  *)
(* agent nodes, the LangGraph chain built by build_workflow and the entry  *)
(* point think_through_decision.                                           *)
(*                                                                         *)
(* Text is a sequence of tokens.  A token is one character of user text    *)
(* (" ", "\n", "d", ...), one fixed fragment of a template, or one of the   *)
(* two literals the Clarifier parses on.                                   *)
(***************************************************************************)
EXTENDS Integers, Sequences, FiniteSets, TLC

\* ------------------------------------------------------------------ bounds
MaxPad == 1
MaxBody == 10
MaxResp == 4

\* --------------------------------------------------------------- constants
MinLen == 10

PyNone == <<"<None>">>

Whitespace == {" ", "\n", "\t"}

RealDecisionMarker == "## The Real Decision Might Be..."

ProbingHeading == "## Probing Questions"

\* ----------------------------------------------------------- str operators
RECURSIVE LStrip(_)
LStrip(s) ==
    IF s = <<>> THEN s
    ELSE IF Head(s) \in Whitespace THEN LStrip(Tail(s)) ELSE s

RECURSIVE RStrip(_)
RStrip(s) ==
    IF s = <<>> THEN s
    ELSE IF s[Len(s)] \in Whitespace THEN RStrip(SubSeq(s, 1, Len(s) - 1)) ELSE s

Strip(s) == RStrip(LStrip(s))

\* str.split(sep): the list of the pieces between the occurrences of sep
RECURSIVE SplitFrom(_, _, _)
SplitFrom(s, sep, cur) ==
    IF s = <<>> THEN <<cur>>
    ELSE IF Head(s) = sep THEN <<cur>> \o SplitFrom(Tail(s), sep, <<>>)
    ELSE SplitFrom(Tail(s), sep, Append(cur, Head(s)))

Split(s, sep) == SplitFrom(s, sep, <<>>)

\* str.replace(old, ""): every occurrence of old removed
Remove(s, old) == SelectSeq(s, LAMBDA c : c # old)

\* str(x) inside an f-string
Str(x) == IF x = PyNone THEN <<"None">> ELSE x

\* ------------------------------------------------------------ configuration
models_to_try ==
    << "HuggingFaceH4/zephyr-7b-beta",
       "mistralai/Mistral-7B-Instruct-v0.3",
       "Qwen/Qwen2.5-72B-Instruct",
       "meta-llama/Llama-3.1-8B-Instruct" >>

NumModels == Len(models_to_try)

TokenSentinel ==
    << "[Error: HF_TOKEN not set. Please add your Hugging Face token in Space Settings -> Repository secrets.]" >>

ExhaustionSentinel(err) ==
    << "[Error connecting to inference providers. Last error: " >> \o Str(err) \o << "]" >>

\* variant: only an unset variable counts as no token
get_inference_client_NoneOnly(tok) == IF tok = PyNone THEN PyNone ELSE <<"client">> \o tok

\* get_inference_client() returns None exactly when the token is falsy
get_inference_client(tok) == IF tok = PyNone \/ tok = <<>> THEN PyNone ELSE <<"client">> \o tok

\* message of the AttributeError raised by None.strip()
NoneStripError == << "'NoneType' object has no attribute 'strip'" >>

\* variant: a response without choices is recorded as an error of its own
LoopBody_RecordsNoChoices(model, o) ==
    IF o.kind = "raise"
    THEN [ret |-> FALSE, value |-> <<>>, caught |-> TRUE,
          err |-> <<model, ": ">> \o o.detail]
    ELSE IF o.kind \in {"noresponse", "nochoices"}
    THEN [ret |-> FALSE, value |-> <<>>, caught |-> TRUE,
          err |-> <<model, ": ", "no choices">>]
    ELSE IF o.content = PyNone
    THEN [ret |-> FALSE, value |-> <<>>, caught |-> TRUE,
          err |-> <<model, ": ">> \o NoneStripError]
    ELSE [ret |-> TRUE, value |-> Strip(o.content), caught |-> FALSE, err |-> <<>>]

\* One iteration of the for loop of call_llm on the remote outcome o:
\*   ret  - the iteration returns from call_llm with value
\*   err  - the except clause ran and recorded err
LoopBody(model, o) ==
    IF o.kind = "raise"
    THEN [ret |-> FALSE, value |-> <<>>, caught |-> TRUE,
          err |-> <<model, ": ">> \o o.detail]
    ELSE IF o.kind \in {"noresponse", "nochoices"}
    THEN [ret |-> FALSE, value |-> <<>>, caught |-> FALSE, err |-> <<>>]
    ELSE IF o.content = PyNone
    THEN [ret |-> FALSE, value |-> <<>>, caught |-> TRUE,
          err |-> <<model, ": ">> \o NoneStripError]
    ELSE [ret |-> TRUE, value |-> Strip(o.content), caught |-> FALSE, err |-> <<>>]

Chr34 == "\""

\* --------------------------------------------------------- state definition
Fields ==
    { "user_decision", "probing_questions", "clarified_decision", "hidden_options",
      "assumptions_challenged", "final_synthesis", "current_step" }

\* no DecisionState exists before think_through_decision builds one
NoState == [f \in Fields |-> PyNone]

\* ------------------------------------------------------------ agent prompts
CLARIFIER_PROMPT(decision) ==
    << "You are the Clarifier ...", "USER'S DECISION:" >> \o decision
    \o << "Respond in this exact format:", ProbingHeading, "1. 2. 3.",
          RealDecisionMarker, "[2-3 sentences reframing the decision]" >>

EXPLORER_PROMPT(decision, clarified) ==
    << "You are the Explorer ...", "ORIGINAL DECISION:" >> \o decision
    \o << "CLARIFIED DECISION:" >> \o clarified
    \o << "Generate 3 alternative options ...", "## Options You Might Not Have Considered" >>

CHALLENGER_PROMPT(decision, clarified, options) ==
    << "You are the Challenger ...", "ORIGINAL DECISION:" >> \o decision
    \o << "CLARIFIED DECISION:" >> \o clarified
    \o << "OPTIONS EXPLORED:" >> \o options
    \o << "Identify 3 assumptions ...", "## Assumptions Worth Questioning" >>

SYNTHESIZER_PROMPT(decision, clarified, options, challenges) ==
    << "You are the Synthesizer ...", "ORIGINAL DECISION:" >> \o decision
    \o << "CLARIFIED DECISION:" >> \o clarified
    \o << "OPTIONS EXPLORED:" >> \o options
    \o << "ASSUMPTIONS CHALLENGED:" >> \o challenges
    \o << "Synthesize the key insights ...", "## A Question to Sit With" >>

\* -------------------------------------------------------------- agent nodes
\* Each agent is two halves around its single call_llm: the prompt it builds
\* from the state, and the delta (a dict) it returns from the response.
clarifier_prompt(st) == CLARIFIER_PROMPT(st["user_decision"])

\* variant: without the marker the response goes to the clarified decision
clarifier_agent_FallbackSwapped(st, response) ==
    LET parts == Split(response, RealDecisionMarker)
        probing == IF Len(parts) > 1 THEN Strip(Remove(parts[1], ProbingHeading)) ELSE <<>>
        clarified == IF Len(parts) > 1 THEN Strip(parts[2]) ELSE response
    IN  [k \in {"probing_questions", "clarified_decision", "current_step"} |->
            CASE k = "probing_questions" -> probing
              [] k = "clarified_decision" -> clarified
              [] OTHER -> <<"clarified">>]

clarifier_agent(st, response) ==
    LET parts == Split(response, RealDecisionMarker)
        probing == IF parts # <<>> THEN Strip(Remove(parts[1], ProbingHeading)) ELSE response
        clarified == IF Len(parts) > 1 THEN Strip(parts[2]) ELSE <<>>
    IN  [k \in {"probing_questions", "clarified_decision", "current_step"} |->
            CASE k = "probing_questions" -> probing
              [] k = "clarified_decision" -> clarified
              [] OTHER -> <<"clarified">>]

explorer_prompt(st) == EXPLORER_PROMPT(st["user_decision"], st["clarified_decision"])

\* variant: the explorer also overwrites the clarified decision
explorer_agent_AlsoClarified(st, response) ==
    [k \in {"hidden_options", "clarified_decision", "current_step"} |->
        IF k = "current_step" THEN <<"explored">> ELSE response]

explorer_agent(st, response) ==
    [k \in {"hidden_options", "current_step"} |->
        IF k = "hidden_options" THEN response ELSE <<"explored">>]

\* variant: the clarified decision passed where the options belong
challenger_prompt_NoOptions(st) ==
    CHALLENGER_PROMPT(st["user_decision"], st["clarified_decision"], st["clarified_decision"])

challenger_prompt(st) ==
    CHALLENGER_PROMPT(st["user_decision"], st["clarified_decision"], st["hidden_options"])

\* variant: the challenger reports the step of the stage before it
challenger_agent_StepBehind(st, response) ==
    [k \in {"assumptions_challenged", "current_step"} |->
        IF k = "assumptions_challenged" THEN response ELSE <<"explored">>]

challenger_agent(st, response) ==
    [k \in {"assumptions_challenged", "current_step"} |->
        IF k = "assumptions_challenged" THEN response ELSE <<"challenged">>]

\* variant: options and challenges substituted in each other's place
synthesizer_prompt_Swapped(st) ==
    SYNTHESIZER_PROMPT(st["user_decision"], st["clarified_decision"],
                       st["assumptions_challenged"], st["hidden_options"])

synthesizer_prompt(st) ==
    SYNTHESIZER_PROMPT(st["user_decision"], st["clarified_decision"],
                       st["hidden_options"], st["assumptions_challenged"])

\* variant: the options section is left out when the field is empty
final_output_OmitsEmptyOptions(st, response) ==
    << "<div>", "# Your Decision Partner Journey", "---",
       "## The Decision You Brought", "> *", Chr34 >> \o st["user_decision"] \o << Chr34, "*", "---",
       "## Stage 1: Clarify", "*The Clarifier helped surface ...*",
       "### Probing Questions" >> \o st["probing_questions"]
    \o << "### The Deeper Decision" >> \o st["clarified_decision"]
    \o (IF st["hidden_options"] = <<>> THEN <<>>
        ELSE << "---", "## Stage 2: Explore", "*The Explorer expanded ...*" >>
             \o st["hidden_options"])
    \o << "---", "## Stage 3: Challenge", "*The Challenger stress-tested ...*" >>
    \o st["assumptions_challenged"]
    \o << "---", "## Stage 4: Synthesize", "*The Synthesizer compiled ...*" >> \o response
    \o << "---", "### Remember", "**This isn't advice. It's a mirror for your own thinking.**",
          "*The pipeline is the product.*", "</div>" >>

\* the f-string final_output of synthesizer_agent
final_output(st, response) ==
    << "<div>", "# Your Decision Partner Journey", "---",
       "## The Decision You Brought", "> *", Chr34 >> \o st["user_decision"] \o << Chr34, "*", "---",
       "## Stage 1: Clarify", "*The Clarifier helped surface ...*",
       "### Probing Questions" >> \o st["probing_questions"]
    \o << "### The Deeper Decision" >> \o st["clarified_decision"]
    \o << "---", "## Stage 2: Explore", "*The Explorer expanded ...*" >> \o st["hidden_options"]
    \o << "---", "## Stage 3: Challenge", "*The Challenger stress-tested ...*" >>
    \o st["assumptions_challenged"]
    \o << "---", "## Stage 4: Synthesize", "*The Synthesizer compiled ...*" >> \o response
    \o << "---", "### Remember", "**This isn't advice. It's a mirror for your own thinking.**",
          "*The pipeline is the product.*", "</div>" >>

\* variant: the delta without the rendered document
synthesizer_agent_NoDocument(st, response) == [k \in {"current_step"} |-> <<"complete">>]

synthesizer_agent(st, response) ==
    [k \in {"final_synthesis", "current_step"} |->
        IF k = "final_synthesis" THEN final_output(st, response) ELSE <<"complete">>]

\* ----------------------------------------------------------------- workflow
START == "__start__"

END == "__end__"

Nodes == {"clarifier", "explorer", "challenger", "synthesizer"}

\* variant: the explorer wired before the clarifier
Edges_ExplorerFirst ==
    [n \in Nodes \cup {START} |->
        CASE n = START -> "explorer"
          [] n = "explorer" -> "clarifier"
          [] n = "clarifier" -> "challenger"
          [] n = "challenger" -> "synthesizer"
          [] OTHER -> END]

\* variant: the clarifier wired straight to the challenger
Edges_SkipExplorer ==
    [n \in Nodes \cup {START} |->
        CASE n = START -> "clarifier"
          [] n = "clarifier" -> "challenger"
          [] n = "explorer" -> "challenger"
          [] n = "challenger" -> "synthesizer"
          [] OTHER -> END]

\* build_workflow(): the edges added to the StateGraph
Edges ==
    [n \in Nodes \cup {START} |->
        CASE n = START -> "clarifier"
          [] n = "clarifier" -> "explorer"
          [] n = "explorer" -> "challenger"
          [] n = "challenger" -> "synthesizer"
          [] OTHER -> END]

NodePrompt(n, st) ==
    CASE n = "clarifier" -> clarifier_prompt(st)
      [] n = "explorer" -> explorer_prompt(st)
      [] n = "challenger" -> challenger_prompt(st)
      [] OTHER -> synthesizer_prompt(st)

NodeDelta(n, st, response) ==
    CASE n = "clarifier" -> clarifier_agent(st, response)
      [] n = "explorer" -> explorer_agent(st, response)
      [] n = "challenger" -> challenger_agent(st, response)
      [] OTHER -> synthesizer_agent(st, response)

\* the graph merges the dict a node returns into the state, key by key
Merge(st, delta) == [f \in Fields |-> IF f \in DOMAIN delta THEN delta[f] ELSE st[f]]

\* ------------------------------------------------------------- entry point
GUIDANCE == << "## Welcome to Decision Partner", "Please share a decision you're wrestling with." >>

\* variant: the length test without the strip
TooShort_NoStrip(decision) == decision = PyNone \/ decision = <<>> \/ Len(decision) < MinLen

\* the guard of think_through_decision: not decision or len(decision.strip()) < 10
TooShort(decision) == decision = PyNone \/ decision = <<>> \/ Len(Strip(decision)) < MinLen

\* variant: the state takes the decision as typed
initial_state_Raw(decision) ==
    [f \in Fields |->
        CASE f = "user_decision" -> decision
          [] f = "current_step" -> <<"starting">>
          [] OTHER -> <<>>]

initial_state(decision) ==
    [f \in Fields |->
        CASE f = "user_decision" -> Strip(decision)
          [] f = "current_step" -> <<"starting">>
          [] OTHER -> <<>>]

\* -------------------------------------------------------------------- inputs
Pad(n, c) == [i \in 1..n |-> c]

\* n characters of user text with one interior blank
Body(n) == [i \in 1..n |-> IF i = 2 /\ n >= 3 THEN " " ELSE "d"]

\* None, or a body with up to MaxPad blanks or newlines around it
Decisions ==
    {PyNone} \cup
    { Pad(l, " ") \o Body(n) \o Pad(r, "\n") :
        <<l, r, n>> \in { x \in (0..MaxPad) \X (0..MaxPad) \X (0..MaxBody) : x[1] + x[2] <= MaxPad } }

\* os.getenv("HF_TOKEN"): unset, set to the empty string, or set
Tokens == { PyNone, <<>>, <<"hf_token">> }

Outcome(k, d, c) == [kind |-> k, detail |-> d, content |-> c]

\* what one client.chat_completion call can do
Errors == { <<"503 Service Unavailable">>, <<"401 Unauthorized">> }

MarkedContent ==
    << ProbingHeading, "\n", "q", "\n", RealDecisionMarker, "\n", "r", "\n" >>

Contents == { <<>>, <<" ">>, <<" ", "ok", " ", "ok", "\n">>, MarkedContent }

AllOutcomes ==
    { Outcome("raise", e, <<>>) : e \in Errors }
    \cup { Outcome("noresponse", <<>>, <<>>), Outcome("nochoices", <<>>, <<>>) }
    \cup { Outcome("content", <<>>, c) : c \in Contents \cup {PyNone} }

\* the outcomes used for whole runs of the pipeline
RunOutcomes ==
    { Outcome("raise", <<"503 Service Unavailable">>, <<>>),
      Outcome("content", <<>>, <<" ", "ok", " ", "ok", "\n">>),
      Outcome("content", <<>>, <<>>),
      Outcome("content", <<>>, MarkedContent) }

Prompts == { <<"prompt">>, <<>> }

\* --------------------------------------------------------------------- state
VARIABLES
    hf_token,       \* the environment variable HF_TOKEN
    decision,       \* the argument of think_through_decision
    pc,             \* "idle", the node being run, "returned"; "direct" for a bare call_llm
    llm,            \* position inside call_llm: "none", "loop", "ret"
    state,          \* the DecisionState of the run
    prompt,         \* call_llm: the prompt argument
    model_idx,      \* call_llm: index of the candidate the loop is at
    last_error,     \* call_llm: last_error
    response,       \* the value call_llm returned
    output,         \* the value think_through_decision returned
    progress_log,   \* the values passed to progress(), in order
    script,         \* what each candidate's chat_completion does when call_llm is called on its own
    attempts,       \* history: outcomes of the remote calls of the current call_llm
    called,         \* history: the model of each remote call of the current call_llm
    remote_calls,   \* history: number of chat_completion calls made
    llm_calls,      \* history: number of call_llm calls made
    stage_log,      \* history: [node, prompt] for each node entered
    merged,         \* history: [node, keys, response] for each delta merged
    runs            \* the runs in progress when several requests are served at once

vars ==
    << hf_token, decision, pc, llm, state, prompt, model_idx, last_error, response, output,
       progress_log, script, attempts, called, remote_calls, llm_calls, stage_log, merged,
       runs >>

frame == << model_idx, last_error, attempts, called >>

InitCommon ==
    /\ hf_token \in Tokens
    /\ llm = "none"
    /\ state = NoState
    /\ model_idx = 0
    /\ last_error = PyNone
    /\ response = PyNone
    /\ output = PyNone
    /\ progress_log = <<>>
    /\ attempts = <<>>
    /\ called = <<>>
    /\ remote_calls = 0
    /\ llm_calls = 0
    /\ stage_log = <<>>
    /\ merged = <<>>

Init ==
    /\ InitCommon
    /\ decision \in Decisions
    /\ pc = "idle"
    /\ prompt = <<>>
    /\ script = <<>>
    /\ runs = <<>>

\* ------------------------------------------------------------------ call_llm
\* entry of call_llm(p): the client lookup and, with a client, the loop set-up
call_llm_enter(p) ==
    /\ prompt' = p
    /\ llm_calls' = llm_calls + 1
    /\ attempts' = <<>>
    /\ called' = <<>>
    /\ last_error' = PyNone
    /\ IF get_inference_client(hf_token) = PyNone
       THEN /\ response' = TokenSentinel
            /\ llm' = "ret"
            /\ model_idx' = 0
       ELSE /\ response' = PyNone
            /\ llm' = "loop"
            /\ model_idx' = 1

\* variant: after a failure the loop passes over the next candidate
RemoteCall_SkipsCandidate(o) ==
    /\ llm = "loop"
    /\ LET r == LoopBody(models_to_try[model_idx], o)
           err == IF r.caught THEN r.err ELSE last_error
       IN  /\ attempts' = Append(attempts, o)
           /\ called' = Append(called, models_to_try[model_idx])
           /\ remote_calls' = remote_calls + 1
           /\ IF r.ret
              THEN /\ response' = r.value
                   /\ llm' = "ret"
                   /\ UNCHANGED << model_idx, last_error >>
              ELSE /\ last_error' = err
                   /\ IF model_idx < NumModels
                      THEN /\ model_idx' = IF model_idx + 2 <= NumModels
                                           THEN model_idx + 2 ELSE model_idx + 1
                           /\ UNCHANGED << llm, response >>
                      ELSE /\ response' = ExhaustionSentinel(err)
                           /\ llm' = "ret"
                           /\ UNCHANGED model_idx
    /\ UNCHANGED << hf_token, runs, decision, pc, state, prompt, output, progress_log, script,
                    llm_calls, stage_log, merged >>

\* one iteration of the for loop: one client.chat_completion call and what follows it
RemoteCall(o) ==
    /\ llm = "loop"
    /\ LET r == LoopBody(models_to_try[model_idx], o)
           err == IF r.caught THEN r.err ELSE last_error
       IN  /\ attempts' = Append(attempts, o)
           /\ called' = Append(called, models_to_try[model_idx])
           /\ remote_calls' = remote_calls + 1
           /\ IF r.ret
              THEN /\ response' = r.value
                   /\ llm' = "ret"
                   /\ UNCHANGED << model_idx, last_error >>
              ELSE /\ last_error' = err
                   /\ IF model_idx < NumModels
                      THEN /\ model_idx' = model_idx + 1
                           /\ UNCHANGED << llm, response >>
                      ELSE /\ response' = ExhaustionSentinel(err)
                           /\ llm' = "ret"
                           /\ UNCHANGED model_idx
    /\ UNCHANGED << hf_token, runs, decision, pc, state, prompt, output, progress_log, script,
                    llm_calls, stage_log, merged >>

\* -------------------------------------------------- think_through_decision
ThinkReject ==
    /\ pc = "idle"
    /\ TooShort(decision)
    /\ output' = GUIDANCE
    /\ pc' = "returned"
    /\ UNCHANGED << hf_token, runs, decision, llm, state, prompt, response, progress_log, script,
                    frame, remote_calls, llm_calls, stage_log, merged >>

\* variant: the completion notification is emitted with the others
ThinkStart_CompleteEarly ==
    /\ pc = "idle"
    /\ ~TooShort(decision)
    /\ progress_log' = <<0, 15, 35, 55, 75, 100>>
    /\ state' = initial_state(decision)
    /\ pc' = Edges[START]
    /\ UNCHANGED << hf_token, runs, decision, llm, prompt, response, output, script, frame,
                    remote_calls, llm_calls, stage_log, merged >>

\* the progress calls, build_workflow(), initial_state, up to the start of app.invoke
ThinkStart ==
    /\ pc = "idle"
    /\ ~TooShort(decision)
    /\ progress_log' = <<0, 15, 35, 55, 75>>
    /\ state' = initial_state(decision)
    /\ pc' = Edges[START]
    /\ UNCHANGED << hf_token, runs, decision, llm, prompt, response, output, script, frame,
                    remote_calls, llm_calls, stage_log, merged >>

\* a node starts: it formats its prompt from the state and calls call_llm
NodeEnter ==
    /\ pc \in Nodes
    /\ llm = "none"
    /\ call_llm_enter(NodePrompt(pc, state))
    /\ stage_log' = Append(stage_log, [node |-> pc, prompt |-> NodePrompt(pc, state)])
    /\ UNCHANGED << hf_token, runs, decision, pc, state, output, progress_log, script, remote_calls,
                    merged >>

\* call_llm has returned: the node returns its delta, the graph merges it and follows the
\* edge; after the last node app.invoke returns and think_through_decision returns
\* variant: a node whose call came back with the credential sentinel calls again, once
NodeReturn_RetriesSentinel ==
    /\ pc \in Nodes
    /\ llm = "ret"
    /\ IF response = TokenSentinel /\ llm_calls <= Len(merged) + 1
       THEN UNCHANGED << state, merged, pc, progress_log, output >>
       ELSE LET delta == NodeDelta(pc, state, response)
                result == Merge(state, delta)
            IN  /\ state' = result
                /\ merged' = Append(merged, [node |-> pc, keys |-> DOMAIN delta,
                                             response |-> response])
                /\ IF Edges[pc] = END
                   THEN /\ pc' = "returned"
                        /\ progress_log' = Append(progress_log, 100)
                        /\ output' = result["final_synthesis"]
                   ELSE /\ pc' = Edges[pc]
                        /\ UNCHANGED << progress_log, output >>
    /\ llm' = "none"
    /\ prompt' = <<>>
    /\ response' = PyNone
    /\ model_idx' = 0
    /\ last_error' = PyNone
    /\ attempts' = <<>>
    /\ called' = <<>>
    /\ UNCHANGED << hf_token, runs, decision, script, remote_calls, llm_calls, stage_log >>

NodeReturn ==
    /\ pc \in Nodes
    /\ llm = "ret"
    /\ LET delta == NodeDelta(pc, state, response)
           result == Merge(state, delta)
       IN  /\ state' = result
           /\ merged' = Append(merged, [node |-> pc, keys |-> DOMAIN delta, response |-> response])
           /\ IF Edges[pc] = END
              THEN /\ pc' = "returned"
                   /\ progress_log' = Append(progress_log, 100)
                   /\ output' = result["final_synthesis"]
              ELSE /\ pc' = Edges[pc]
                   /\ UNCHANGED << progress_log, output >>
    /\ llm' = "none"
    /\ prompt' = <<>>
    /\ response' = PyNone
    /\ model_idx' = 0
    /\ last_error' = PyNone
    /\ attempts' = <<>>
    /\ called' = <<>>
    /\ UNCHANGED << hf_token, runs, decision, script, remote_calls, llm_calls, stage_log >>

RunRemoteCall == \E o \in RunOutcomes : RemoteCall(o)

Next == ThinkReject \/ ThinkStart \/ NodeEnter \/ RunRemoteCall \/ NodeReturn

Spec == Init /\ [][Next]_vars

\* think_through_decision is one synchronous thread: while a step is possible (the remote
\* call it waits for has answered) the thread takes it
FairSpec == Spec /\ WF_vars(Next)

\* ------------------------------------------------ call_llm called on its own
InitCall ==
    /\ InitCommon
    /\ decision = PyNone
    /\ pc = "direct"
    /\ prompt \in Prompts
    /\ script \in [1..NumModels -> AllOutcomes]
    /\ runs = <<>>

DirectCall ==
    /\ pc = "direct"
    /\ llm = "none"
    /\ llm_calls = 0
    /\ call_llm_enter(prompt)
    /\ UNCHANGED << hf_token, runs, decision, pc, state, output, progress_log, script, remote_calls,
                    stage_log, merged >>

\* candidate model_idx answers as the script says
ScriptedRemoteCall == RemoteCall(script[model_idx])

NextCall == DirectCall \/ ScriptedRemoteCall

SpecCall == InitCall /\ [][NextCall]_vars

\* ------------------------------------------- the clarifier on any LLM answer
ClarifierAlphabet == { ProbingHeading, RealDecisionMarker, "q", " " }

\* the contents a candidate can return to the clarifier, up to MaxResp tokens
ClarifierContents == UNION { [1..n -> ClarifierAlphabet] : n \in 0..MaxResp }

\* the clarifier of a run on a ten-character decision, at the point where its call_llm
\* has returned the first candidate's content
InitClarify ==
    /\ hf_token = <<"hf_token">>
    /\ decision = Body(MinLen)
    /\ pc = "clarifier"
    /\ state = initial_state(decision)
    /\ prompt = clarifier_prompt(state)
    /\ progress_log = <<0, 15, 35, 55, 75>>
    /\ \E c \in ClarifierContents :
        /\ attempts = << Outcome("content", <<>>, c) >>
        /\ response = Strip(c)
    /\ llm = "ret"
    /\ model_idx = 1
    /\ last_error = PyNone
    /\ called = << models_to_try[1] >>
    /\ remote_calls = 1
    /\ llm_calls = 1
    /\ stage_log = << [node |-> "clarifier", prompt |-> prompt] >>
    /\ merged = <<>>
    /\ output = PyNone
    /\ script = <<>>
    /\ runs = <<>>

ClarifierReturn == pc = "clarifier" /\ NodeReturn

SpecClarify == InitClarify /\ [][ClarifierReturn]_vars

\* ------------------------------------------------ two runs at the same time
\* Two requests call think_through_decision concurrently. Everything a run works on is a
\* local of its own invocation (decision, app, initial_state, the state inside app.invoke,
\* and prompt, client, last_error and the loop index of call_llm); the module has no
\* mutable global. Only os.environ is common to the runs, and it is only read.
RunIds == { "A", "B" }

\* what each request submits: too short, or long enough; the two texts differ
RunDecisions(r) ==
    IF r = "A" THEN { Body(MinLen - 1), Body(MinLen) }
    ELSE { Body(MinLen - 1), <<" ">> \o Body(MinLen + 1) }

\* the remote outcomes used for interleaved runs
TwoOutcomes ==
    { Outcome("raise", <<"503 Service Unavailable">>, <<>>),
      Outcome("content", <<>>, <<" ", "ok", "\n">>) }

NewRun(d) ==
    [ decision |-> d, pc |-> "idle", llm |-> "none", state |-> NoState, prompt |-> <<>>,
      model_idx |-> 0, last_error |-> PyNone, response |-> PyNone, output |-> PyNone,
      progress |-> <<>>, log |-> <<>> ]

\* variant: the pipeline state is one object used by every run
Own_SharedState(r, rec) ==
    [q \in RunIds |-> IF q = r THEN rec ELSE [runs[q] EXCEPT !.state = rec.state]]

\* a step of run r writes the locals of r's invocation and nothing else
Own(r, rec) == [q \in RunIds |-> IF q = r THEN rec ELSE runs[q]]

\* the variables of the single-run specifications are not used by the two runs
OneRunVars ==
    << hf_token, decision, pc, llm, state, prompt, model_idx, last_error, response, output,
       progress_log, script, attempts, called, remote_calls, llm_calls, stage_log, merged >>

InitTwo ==
    /\ InitCommon
    /\ decision = PyNone
    /\ pc = "two"
    /\ prompt = <<>>
    /\ script = <<>>
    /\ \E da \in RunDecisions("A"), db \in RunDecisions("B") :
        runs = [q \in RunIds |-> NewRun(IF q = "A" THEN da ELSE db)]

TwoReject(r) ==
    /\ runs[r].pc = "idle"
    /\ TooShort(runs[r].decision)
    /\ runs' = Own(r, [runs[r] EXCEPT !.output = GUIDANCE, !.pc = "returned"])
    /\ UNCHANGED OneRunVars

TwoStart(r) ==
    /\ runs[r].pc = "idle"
    /\ ~TooShort(runs[r].decision)
    /\ runs' = Own(r, [runs[r] EXCEPT !.progress = <<0, 15, 35, 55, 75>>,
                                      !.state = initial_state(runs[r].decision),
                                      !.pc = Edges[START]])
    /\ UNCHANGED OneRunVars

TwoNodeEnter(r) ==
    LET R == runs[r]
        entered == [R EXCEPT !.prompt = NodePrompt(R.pc, R.state), !.last_error = PyNone]
    IN  /\ R.pc \in Nodes
        /\ R.llm = "none"
        /\ runs' = Own(r, IF get_inference_client(hf_token) = PyNone
                          THEN [entered EXCEPT !.response = TokenSentinel, !.llm = "ret",
                                               !.model_idx = 0]
                          ELSE [entered EXCEPT !.response = PyNone, !.llm = "loop",
                                               !.model_idx = 1])
        /\ UNCHANGED OneRunVars

TwoRemoteCall(r, o) ==
    LET R == runs[r]
        res == LoopBody(models_to_try[R.model_idx], o)
        err == IF res.caught THEN res.err ELSE R.last_error
    IN  /\ R.pc \in Nodes
        /\ R.llm = "loop"
        /\ runs' = Own(r, IF res.ret
                          THEN [R EXCEPT !.response = res.value, !.llm = "ret"]
                          ELSE IF R.model_idx < NumModels
                          THEN [R EXCEPT !.last_error = err, !.model_idx = R.model_idx + 1]
                          ELSE [R EXCEPT !.last_error = err, !.llm = "ret",
                                         !.response = ExhaustionSentinel(err)])
        /\ UNCHANGED OneRunVars

TwoNodeReturn(r) ==
    LET R == runs[r]
        result == Merge(R.state, NodeDelta(R.pc, R.state, R.response))
        back == [R EXCEPT !.state = result, !.log = Append(R.log, R.response),
                          !.llm = "none", !.prompt = <<>>, !.response = PyNone,
                          !.model_idx = 0, !.last_error = PyNone]
    IN  /\ R.pc \in Nodes
        /\ R.llm = "ret"
        /\ runs' = Own(r, IF Edges[R.pc] = END
                          THEN [back EXCEPT !.pc = "returned",
                                            !.progress = Append(R.progress, 100),
                                            !.output = result["final_synthesis"]]
                          ELSE [back EXCEPT !.pc = Edges[R.pc]])
        /\ UNCHANGED OneRunVars

TwoRunRemoteCall(r) == \E o \in TwoOutcomes : TwoRemoteCall(r, o)

NextTwo ==
    \E r \in RunIds :
        \/ TwoReject(r)
        \/ TwoStart(r)
        \/ TwoNodeEnter(r)
        \/ TwoRunRemoteCall(r)
        \/ TwoNodeReturn(r)

SpecTwo == InitTwo /\ [][NextTwo]_vars

\* ======================================================================
\* Properties
\* ======================================================================
\* length of d without its leading and trailing whitespace, counted on positions
NonBlank(d) == { i \in 1..Len(d) : d[i] \notin Whitespace }

Hi(S) == CHOOSE x \in S : \A y \in S : y <= x

Lo(S) == CHOOSE x \in S : \A y \in S : x <= y

TrimmedLength(d) ==
    IF d = PyNone THEN 0
    ELSE IF NonBlank(d) = {} THEN 0 ELSE Hi(NonBlank(d)) - Lo(NonBlank(d)) + 1

StageOrder == << "clarifier", "explorer", "challenger", "synthesizer" >>

NodesOf(log) == [i \in 1..Len(log) |-> log[i].node]

IsPrefix(s, t) == Len(s) <= Len(t) /\ s = SubSeq(t, 1, Len(s))

IsExhaustion(text) ==
    text # PyNone /\ text # <<>>
    /\ text[1] = "[Error connecting to inference providers. Last error: "

IsSentinel(text) == text = TokenSentinel \/ IsExhaustion(text)

NoCredential == hf_token = PyNone \/ hf_token = <<>>

\* C1: a decision whose trimmed length is below 10 (None, empty, whitespace-only included)
\* gets the fixed guidance text; no stage runs, call_llm is never called and no remote
\* call is made.
C1_ShortDecisionGetsGuidance ==
    TrimmedLength(decision) < MinLen =>
        /\ pc \in {"idle", "returned"}
        /\ stage_log = <<>> /\ merged = <<>> /\ state = NoState
        /\ llm_calls = 0 /\ remote_calls = 0
        /\ pc = "returned" => output = GUIDANCE

\* a raw input of at least 10 characters whose trimmed length is below 10 was rejected
C1_Witness ==
    /\ pc = "returned" /\ decision # PyNone
    /\ Len(decision) >= MinLen /\ TrimmedLength(decision) < MinLen
    /\ output = GUIDANCE

\* C2: a run on a decision of trimmed length >= 10 enters exactly the four stages, each
\* once, in the order clarifier, explorer, challenger, synthesizer, whatever call_llm
\* returned to them.
C2_FourStagesInOrder ==
    /\ IsPrefix(NodesOf(stage_log), StageOrder)
    /\ IsPrefix(NodesOf(merged), StageOrder)
    /\ (pc = "returned" /\ TrimmedLength(decision) >= MinLen) =>
            NodesOf(stage_log) = StageOrder /\ NodesOf(merged) = StageOrder

\* a finished run in which one stage got a sentinel and another a real response
C2_Witness ==
    /\ pc = "returned" /\ Len(merged) = 4
    /\ IsExhaustion(merged[1].response)
    /\ ~IsSentinel(merged[2].response)

\* C5: with no credential (HF_TOKEN unset or empty) every call_llm returns the fixed
\* configuration sentinel without a remote call, so a whole run makes no remote call.
C5_NoCredentialNoRemoteCall ==
    NoCredential =>
        /\ remote_calls = 0 /\ attempts = <<>> /\ llm # "loop"
        /\ llm = "ret" => response = TokenSentinel
        /\ \A i \in 1..Len(merged) : merged[i].response = TokenSentinel

\* a whole run finished with the variable set to the empty string
C5_Witness ==
    /\ hf_token = <<>> /\ pc = "returned" /\ Len(merged) = 4 /\ llm_calls = 4
    /\ remote_calls = 0

\* ---------------------------------------------------------------- call_llm
\* A candidate fails, in the specification's sense, when its call raises, when the
\* response is missing or has no choices, or when the content is missing or empty;
\* it succeeds when it returns a non-empty content.
EmptyContent(o) == o.kind = "content" /\ (o.content = PyNone \/ o.content = <<>>)

NonConforming(o) == o.kind \in {"noresponse", "nochoices"} \/ EmptyContent(o)

CandidateFails(o) == o.kind = "raise" \/ NonConforming(o)

CandidateSucceeds(o) == ~CandidateFails(o)

CallReturned == pc = "direct" /\ ~NoCredential /\ llm = "ret"

\* C3: when the first K candidates fail and candidate K+1 succeeds, call_llm makes exactly
\* K+1 remote calls and returns the trimmed content of candidate K+1.
C3_FirstSuccessWins ==
    CallReturned =>
        \A K \in 0..(NumModels - 1) :
            ((\A i \in 1..K : CandidateFails(script[i])) /\ CandidateSucceeds(script[K + 1])) =>
                /\ remote_calls = K + 1
                /\ Len(attempts) = K + 1
                /\ response = Strip(script[K + 1].content)

\* C4: when all N candidates fail (raised fault, missing choices or empty content, in any
\* mix), call_llm makes exactly N remote calls and returns the exhaustion sentinel.
C4_AllFailGivesSentinel ==
    (CallReturned /\ \A i \in 1..NumModels : CandidateFails(script[i])) =>
        /\ remote_calls = NumModels
        /\ IsExhaustion(response)

\* C6: a candidate whose response is non-conforming (no response, no choices, missing or
\* empty content) is never the candidate call_llm returns on: the loop has gone on to the
\* next candidate or, after the last one, returned the exhaustion sentinel.
C6_NonConformingIsFailure ==
    pc = "direct" =>
        \A i \in 1..Len(attempts) :
            NonConforming(attempts[i]) =>
                \/ i < Len(attempts)
                \/ llm = "loop" /\ model_idx = i + 1
                \/ i = NumModels /\ llm = "ret" /\ IsExhaustion(response)

\* the candidates whose call ended in the except clause, and what it recorded for them
Raised(o) == o.kind = "raise" \/ (o.kind = "content" /\ o.content = PyNone)

RaisedDetail(o) == IF o.kind = "raise" THEN o.detail ELSE NoneStripError

RaisedAt == { i \in 1..Len(attempts) : Raised(attempts[i]) }

SentinelPrefix == "[Error connecting to inference providers. Last error: "

Delimiters ==
    { "USER'S DECISION:", "ORIGINAL DECISION:", "CLARIFIED DECISION:", "OPTIONS EXPLORED:",
      "ASSUMPTIONS CHALLENGED:", "Respond in this exact format:",
      "Generate 3 alternative options ...", "Identify 3 assumptions ...",
      "Synthesize the key insights ..." }

\* the text a prompt carries after the label, up to the next delimiter
Slot(p, label) ==
    LET at == Lo({ i \in 1..Len(p) : p[i] = label })
        stop == Lo({ i \in (at + 1)..Len(p) : p[i] \in Delimiters })
    IN  SubSeq(p, at + 1, stop - 1)

Contains(p, v) == \E k \in 1..(Len(p) + 1) : k + Len(v) - 1 <= Len(p) /\ SubSeq(p, k, k + Len(v) - 1) = v

\* the stage-produced fields each node substitutes into its prompt
Reads(n) ==
    CASE n = "clarifier" -> {}
      [] n = "explorer" -> {"clarified_decision"}
      [] n = "challenger" -> {"clarified_decision", "hidden_options"}
      [] OTHER -> {"clarified_decision", "hidden_options", "assumptions_challenged"}

Producer(f) ==
    CASE f \in {"probing_questions", "clarified_decision"} -> "clarifier"
      [] f = "hidden_options" -> "explorer"
      [] f = "assumptions_challenged" -> "challenger"
      [] OTHER -> "synthesizer"

SlotLabel(f) ==
    CASE f = "clarified_decision" -> "CLARIFIED DECISION:"
      [] f = "hidden_options" -> "OPTIONS EXPLORED:"
      [] OTHER -> "ASSUMPTIONS CHALLENGED:"

\* C8: a stage is entered only when every earlier stage's delta has been merged, and each
\* stage-produced field it puts in its prompt was written by its producer beforehand and
\* is the value that field holds for the rest of the run.
C8_StageReadsMergedFields ==
    /\ Len(merged) <= Len(stage_log)
    /\ Len(stage_log) <= Len(merged) + 1
    /\ \A i \in 1..Len(stage_log) :
        \A f \in Reads(stage_log[i].node) :
            /\ \E j \in 1..Len(merged) :
                    j < i /\ merged[j].node = Producer(f) /\ f \in merged[j].keys
            /\ Slot(stage_log[i].prompt, SlotLabel(f)) = state[f]

\* the synthesizer is calling with a prompt that carries a split clarifier answer
C8_Witness ==
    /\ pc = "synthesizer" /\ llm = "loop" /\ Len(stage_log) = 4 /\ Len(merged) = 3
    /\ Slot(prompt, "CLARIFIED DECISION:") = <<"r">>
    /\ Slot(prompt, "OPTIONS EXPLORED:") = <<"ok", " ", "ok">>
    /\ IsExhaustion(Slot(prompt, "ASSUMPTIONS CHALLENGED:"))

OutputFields == Fields \ {"user_decision", "current_step"}

WritesOf(f) == { i \in 1..Len(merged) : f \in merged[i].keys }

\* C9 as stated: every stage writes exactly one field and every field has one writer.
C9_OneFieldPerStage ==
    /\ \A i \in 1..Len(merged) : Cardinality(merged[i].keys) = 1
    /\ \A f \in Fields : Cardinality(WritesOf(f)) <= 1

DeltaKeys(n) ==
    CASE n = "clarifier" -> {"probing_questions", "clarified_decision", "current_step"}
      [] n = "explorer" -> {"hidden_options", "current_step"}
      [] n = "challenger" -> {"assumptions_challenged", "current_step"}
      [] OTHER -> {"final_synthesis", "current_step"}

C9_Writers ==
    /\ \A i \in 1..Len(merged) : merged[i].keys = DeltaKeys(merged[i].node)
    /\ \A f \in OutputFields :
        /\ Cardinality(WritesOf(f)) <= 1
        /\ (state # NoState /\ WritesOf(f) = {}) => state[f] = <<>>

C9_Step ==
    state # NoState =>
        /\ state'["user_decision"] = state["user_decision"]
        /\ \A f \in OutputFields : WritesOf(f) # {} => state'[f] = state[f]
        /\ IF merged' # merged
           THEN \A f \in Fields \ merged'[Len(merged')].keys : state'[f] = state[f]
           ELSE state' = state

\* C9 (amended): each of the five output fields is written by exactly one stage and never
\* changes once written, and user_decision never changes after initialization; the
\* clarifier writes two output fields (probing_questions and clarified_decision), the
\* other stages one each, every stage also overwrites current_step, and a stage leaves
\* every field outside its delta unchanged.
C9_WriteOnceFields == [](C9_Writers) /\ [][C9_Step]_vars

\* a finished run whose clarifier wrote two non-empty fields
C9_Witness ==
    /\ pc = "returned" /\ Len(merged) = 4
    /\ state["probing_questions"] = <<"q">> /\ state["clarified_decision"] = <<"r">>
    /\ state["current_step"] = <<"complete">>

LaterPrompts(i) == { stage_log[k].prompt : k \in (i + 1)..Len(stage_log) }

RunFinished == pc = "returned" /\ state # NoState

\* C10 as stated: a sentinel returned to a stage is stored as its output, every later
\* stage's prompt carries it, and all remaining stages run.
C10_SentinelInLaterPrompts ==
    /\ \A i \in 1..Len(merged) :
        IsSentinel(merged[i].response) =>
            \A p \in LaterPrompts(i) : Contains(p, merged[i].response)
    /\ RunFinished => NodesOf(merged) = StageOrder

\* C10 (amended): a sentinel never halts the run and is stored like a real response: the
\* explorer's and the challenger's sentinel become hidden_options and
\* assumptions_challenged and are carried by every later prompt; the clarifier's sentinel
\* becomes probing_questions while clarified_decision stays empty, so later prompts carry
\* an empty clarified decision in its place (the explorer's prompt does not contain the
\* sentinel at all); the synthesizer's sentinel is
\* embedded in the returned document; all remaining stages still run.
C10_SentinelThreaded ==
    /\ \A i \in 1..Len(merged) :
        LET n == merged[i].node
            r == merged[i].response
        IN  IsSentinel(r) =>
                CASE n = "clarifier" ->
                        /\ state["probing_questions"] = r
                        /\ state["clarified_decision"] = <<>>
                        /\ \A p \in LaterPrompts(i) : Slot(p, "CLARIFIED DECISION:") = <<>>
                        /\ i < Len(stage_log) => ~Contains(stage_log[i + 1].prompt, r)
                  [] n \in {"explorer", "challenger"} ->
                        /\ state[CHOOSE f \in OutputFields : Producer(f) = n] = r
                        /\ \A p \in LaterPrompts(i) :
                                Slot(p, SlotLabel(CHOOSE f \in OutputFields : Producer(f) = n)) = r
                  [] OTHER ->
                        /\ Contains(state["final_synthesis"], r)
                        /\ output = state["final_synthesis"]
    /\ RunFinished => NodesOf(merged) = StageOrder
    /\ pc \in Nodes => ENABLED Next

\* a finished run whose clarifier and explorer got the exhaustion sentinel
C10_Witness ==
    /\ RunFinished
    /\ IsExhaustion(merged[1].response) /\ IsExhaustion(merged[2].response)
    /\ ~IsSentinel(merged[3].response)

\* ------------------------------------------------------------------ rendering
DecisionHeader == "## The Decision You Brought"

StageHeaders ==
    << "## Stage 1: Clarify", "## Stage 2: Explore", "## Stage 3: Challenge",
       "## Stage 4: Synthesize" >>

Occurrences(doc, tok) == { i \in 1..Len(doc) : doc[i] = tok }

\* every token of toks occurs exactly once in doc, in the order of toks
OnceInOrder(doc, toks) ==
    /\ \A k \in 1..Len(toks) : Cardinality(Occurrences(doc, toks[k])) = 1
    /\ \A k \in 1..(Len(toks) - 1) :
        Lo(Occurrences(doc, toks[k])) < Lo(Occurrences(doc, toks[k + 1]))

IsDocument(doc) == doc # PyNone /\ OnceInOrder(doc, StageHeaders)

ValidDecision == TrimmedLength(decision) >= MinLen

\* C11: a run on a valid decision always ends, and ends by returning the rendered document
\* with the four stage sections, whatever the credential and whatever the candidates did
\* on any stage; it never ends with anything else.
C11_AlwaysRendersDocument ==
    /\ []((pc = "returned" /\ ValidDecision) => IsDocument(output))
    /\ (pc = "idle" /\ ValidDecision) ~> (pc = "returned" /\ IsDocument(output))

\* a finished run in which every stage ended in exhaustion of all candidates
C11_Witness ==
    /\ pc = "returned" /\ Len(merged) = 4 /\ remote_calls = 4 * NumModels
    /\ \A i \in 1..4 : IsExhaustion(merged[i].response)
    /\ IsDocument(output)

\* -------------------------------------------------------- clarifier parsing
HasMarker(r) == \E i \in 1..Len(r) : r[i] = RealDecisionMarker

\* x without its leading and trailing whitespace, by positions
TrimPos(x) == IF NonBlank(x) = {} THEN <<>> ELSE SubSeq(x, Lo(NonBlank(x)), Hi(NonBlank(x)))

RECURSIVE Drop(_, _)
Drop(x, tok) ==
    IF x = <<>> THEN <<>>
    ELSE IF Head(x) = tok THEN Drop(Tail(x), tok) ELSE <<Head(x)>> \o Drop(Tail(x), tok)

\* the clarifier's delta has been merged
ClarifierMerged == Len(merged) >= 1 /\ merged[1].node = "clarifier"

\* C12 as stated: without the marker the entire response becomes probing_questions and
\* clarified_decision is empty.
C12_WholeResponseKept ==
    (ClarifierMerged /\ ~HasMarker(merged[1].response)) =>
        /\ state["probing_questions"] = merged[1].response
        /\ state["clarified_decision"] = <<>>

\* C12 (amended): without the marker probing_questions is the entire response with every
\* occurrence of the heading "## Probing Questions" removed and the result trimmed, and
\* clarified_decision is empty.
C12_ResponseWithoutHeadingKept ==
    (ClarifierMerged /\ ~HasMarker(merged[1].response)) =>
        /\ state["probing_questions"] = TrimPos(Drop(merged[1].response, ProbingHeading))
        /\ state["clarified_decision"] = <<>>

\* an answer with the heading but without the marker was parsed
C12_Witness ==
    /\ ClarifierMerged /\ pc = "explorer"
    /\ merged[1].response = << ProbingHeading, " ", "q" >>
    /\ state["probing_questions"] = << "q" >>
    /\ state["clarified_decision"] = <<>>

\* the tokens of x that are neither whitespace, the marker nor the heading
RECURSIVE Payload(_)
Payload(x) ==
    IF x = <<>> THEN <<>>
    ELSE IF Head(x) \in Whitespace \cup { RealDecisionMarker, ProbingHeading }
         THEN Payload(Tail(x))
         ELSE <<Head(x)>> \o Payload(Tail(x))

FirstMarker(r) == Lo({ i \in 1..Len(r) : r[i] = RealDecisionMarker })

\* C20: when the response contains the marker, probing_questions is the trimmed text before
\* the first marker with the heading removed, and the two fields together hold every token
\* of the response other than the marker, the heading and whitespace, however many times
\* the marker occurs.
C20_SplitLosesNoText ==
    (ClarifierMerged /\ HasMarker(merged[1].response)) =>
        LET r == merged[1].response
        IN  /\ state["probing_questions"] =
                   TrimPos(Drop(SubSeq(r, 1, FirstMarker(r) - 1), ProbingHeading))
            /\ Payload(state["probing_questions"] \o state["clarified_decision"]) = Payload(r)

\* ------------------------------------------------------- document sections
Rule == "---"

ClosingHeader == "### Remember"

Pos(doc, tok) == Lo(Occurrences(doc, tok))

\* the tokens between a header and the next horizontal rule
Section(doc, header) ==
    LET h == Pos(doc, header)
        e == Lo({ j \in Occurrences(doc, Rule) : j > h })
    IN  SubSeq(doc, h + 1, e - 1)

\* C13: the document of a finished run holds the decision header and the four stage headers
\* once each in that order, then the closing annotation, and each section carries the value
\* of its field (the synthesis section the synthesizer's text), also when the values are
\* empty or sentinels.
C13_AllSectionsInOrder ==
    RunFinished =>
        LET doc == state["final_synthesis"]
            s1 == Section(doc, StageHeaders[1])
            s2 == Section(doc, StageHeaders[2])
            s3 == Section(doc, StageHeaders[3])
            s4 == Section(doc, StageHeaders[4])
        IN  /\ output = doc
            /\ OnceInOrder(doc, << DecisionHeader >> \o StageHeaders \o << ClosingHeader >>)
            /\ Section(doc, DecisionHeader)
                   = << "> *", Chr34 >> \o state["user_decision"] \o << Chr34, "*" >>
            /\ s1 = << s1[1], "### Probing Questions" >> \o state["probing_questions"]
                       \o << "### The Deeper Decision" >> \o state["clarified_decision"]
            /\ s2 = << s2[1] >> \o state["hidden_options"]
            /\ s3 = << s3[1] >> \o state["assumptions_challenged"]
            /\ s4 = << s4[1] >> \o merged[4].response
            /\ doc[Len(doc)] = "</div>"

\* a finished run whose document carries an empty clarified decision, empty options and a
\* sentinel as challenges
C13_Witness ==
    /\ RunFinished
    /\ state["clarified_decision"] = <<>>
    /\ state["hidden_options"] = <<>>
    /\ IsSentinel(state["assumptions_challenged"])
    /\ Section(output, StageHeaders[2]) = << "*The Explorer expanded ...*" >>

\* ------------------------------------------------------- the decision text
DecisionSection(text) == << "> *", Chr34 >> \o text \o << Chr34, "*" >>

\* C14 as stated: the state holds the raw user input from initialization on, and the
\* returned document carries that text verbatim in its decision section.
C14_RawDecisionKept ==
    /\ state # NoState => state["user_decision"] = decision
    /\ RunFinished => Section(output, DecisionHeader) = DecisionSection(decision)

\* C14 (amended): the decision held in state throughout the run is the user input without
\* its leading and trailing whitespace, set once at initialization, and the returned
\* document carries that trimmed text verbatim in its decision section.
C14_TrimmedDecisionKept ==
    /\ state # NoState => state["user_decision"] = TrimPos(decision)
    /\ RunFinished => Section(output, DecisionHeader) = DecisionSection(TrimPos(decision))

\* a finished run on a decision typed with whitespace around it
C14_Witness ==
    /\ RunFinished
    /\ Len(decision) > Len(state["user_decision"])
    /\ Section(output, DecisionHeader) = DecisionSection(state["user_decision"])

\* ------------------------------------------------------------ prompt inputs
FieldLabels ==
    { "USER'S DECISION:", "ORIGINAL DECISION:", "CLARIFIED DECISION:", "OPTIONS EXPLORED:",
      "ASSUMPTIONS CHALLENGED:" }

\* the fields a stage declares as input
DeclaredInputs(n) == Reads(n) \cup {"user_decision"}

InputLabel(n, f) ==
    IF f = "user_decision"
    THEN (IF n = "clarifier" THEN "USER'S DECISION:" ELSE "ORIGINAL DECISION:")
    ELSE SlotLabel(f)

LabelsIn(p) == { p[k] : k \in 1..Len(p) } \cap FieldLabels

\* C15: the prompt a stage sends has one labelled slot for each field the stage declares as
\* input and no other, every slot holds exactly the field's value in state, an empty field
\* giving an empty slot, and that prompt is the one handed to call_llm.
C15_PromptCarriesDeclaredInputs ==
    /\ \A i \in 1..Len(stage_log) :
        LET n == stage_log[i].node
            p == stage_log[i].prompt
        IN  /\ LabelsIn(p) = { InputLabel(n, f) : f \in DeclaredInputs(n) }
            /\ \A f \in DeclaredInputs(n) :
                /\ Cardinality(Occurrences(p, InputLabel(n, f))) = 1
                /\ Slot(p, InputLabel(n, f)) = state[f]
    /\ (pc \in Nodes /\ llm # "none") =>
            /\ stage_log # <<>>
            /\ stage_log[Len(stage_log)] = [node |-> pc, prompt |-> prompt]

\* the challenger is calling with an empty clarified decision and empty options
C15_Witness ==
    /\ pc = "challenger" /\ llm = "loop"
    /\ state["clarified_decision"] = <<>> /\ state["hidden_options"] = <<>>
    /\ Slot(prompt, "CLARIFIED DECISION:") = <<>>
    /\ Slot(prompt, "OPTIONS EXPLORED:") = <<>>
    /\ Slot(prompt, "ORIGINAL DECISION:") = state["user_decision"]

\* ------------------------------------------------- progress notifications
Emitted(v) == \E i \in 1..Len(progress_log) : progress_log[i] = v

\* C16 as stated: the notification announcing a stage is emitted after the previous stage
\* has finished and before the stage runs, and the completion notification only after all
\* four stages.
C16_NotificationPerStageBoundary ==
    /\ Emitted(35) => Len(merged) >= 1
    /\ Emitted(55) => Len(merged) >= 2
    /\ Emitted(75) => Len(merged) >= 3
    /\ Emitted(100) => Len(merged) = 4
    /\ \A i \in 1..Len(stage_log) : Emitted(<<15, 35, 55, 75>>[i])

\* C16 (amended): the notifications announcing the four stages are all emitted, in stage
\* order, before the first stage runs; the completion notification is emitted only after
\* all four stages have run; a rejected decision emits none; and with them emitted the
\* stages still run in the fixed order.
C16_NotificationsBeforeFirstStage ==
    /\ state = NoState => progress_log = <<>>
    /\ state # NoState =>
        /\ Len(progress_log) \in {5, 6}
        /\ SubSeq(progress_log, 1, 5) = <<0, 15, 35, 55, 75>>
        /\ Len(progress_log) = 6 <=> (pc = "returned" /\ Len(merged) = 4)
        /\ Len(progress_log) = 6 => progress_log[6] = 100
    /\ IsPrefix(NodesOf(stage_log), StageOrder)

\* the run has started and no stage has run yet, with every stage already announced
C16_Witness ==
    /\ pc = "clarifier" /\ llm = "none"
    /\ stage_log = <<>> /\ merged = <<>>
    /\ progress_log = <<0, 15, 35, 55, 75>>

\* ------------------------------------------------------- candidate order
GaveText(o) == o.kind = "content" /\ o.content # PyNone

\* C18: within one call_llm call the candidates called so far are the first candidates of
\* the list, in list order, each called once and one after the other: the next candidate is
\* the one after the last called, and it is called only when no called candidate gave text.
C18_CandidatesInOrderOnce ==
    /\ Len(called) <= NumModels
    /\ Len(called) = Len(attempts)
    /\ \A i \in 1..Len(called) : called[i] = models_to_try[i]
    /\ \A i, j \in 1..Len(called) : i # j => called[i] # called[j]
    /\ \A i \in 1..(Len(called) - 1) : ~GaveText(attempts[i])
    /\ llm = "loop" => /\ model_idx = Len(called) + 1
                       /\ \A i \in 1..Len(called) : ~GaveText(attempts[i])

\* three candidates failed and the fourth was called and gave text
C18_Witness ==
    /\ pc = "direct" /\ llm = "ret"
    /\ called = models_to_try
    /\ attempts[1].kind = "raise" /\ attempts[2].kind = "nochoices"
    /\ attempts[3].kind = "noresponse"
    /\ GaveText(attempts[NumModels]) /\ response = << "ok", " ", "ok" >>

\* ------------------------------------------------------ calls per run
NumStages == Cardinality(Nodes)

\* C19: every stage calls call_llm once and is never run again, whatever came back: the
\* calls made so far are one per stage entered, a finished run has made exactly one call
\* per stage (4), and the remote calls are at most NumModels per call_llm call (16 per run).
C19_OneCallPerStage ==
    /\ llm_calls = Len(stage_log)
    /\ Len(merged) <= llm_calls /\ llm_calls <= Len(merged) + 1
    /\ IsPrefix(NodesOf(stage_log), StageOrder)
    /\ IsPrefix(NodesOf(merged), StageOrder)
    /\ remote_calls <= NumModels * llm_calls
    /\ RunFinished => /\ llm_calls = NumStages
                      /\ NumStages = 4
                      /\ remote_calls <= 4 * NumModels

\* a finished run whose first stage got the exhaustion sentinel and whose other stages got
\* text at the first candidate: four calls, NumModels + 3 remote calls
C19_Witness ==
    /\ RunFinished
    /\ IsExhaustion(merged[1].response)
    /\ \A i \in 2..4 : ~IsSentinel(merged[i].response)
    /\ llm_calls = 4
    /\ remote_calls = NumModels + 3

\* ------------------------------------------------------- run ownership
\* the state of a run on decision d after the stages that got the responses of log
RECURSIVE Replay(_, _)
Replay(d, log) ==
    IF log = <<>> THEN initial_state(d)
    ELSE LET before == Replay(d, SubSeq(log, 1, Len(log) - 1))
         IN  Merge(before, NodeDelta(StageOrder[Len(log)], before, log[Len(log)]))

\* run r holds what a run alone on r's decision holds after r's own responses
OwnResult(r) ==
    LET R == runs[r]
        alone == Replay(R.decision, R.log)
    IN  /\ Len(R.log) <= 4
        /\ R.state # NoState => R.state = alone
        /\ (R.pc \in Nodes /\ R.llm # "none") => R.prompt = NodePrompt(R.pc, alone)
        /\ (R.pc = "returned" /\ R.state # NoState) =>
                /\ Len(R.log) = 4
                /\ R.output = alone["final_synthesis"]
        /\ (R.pc = "returned" /\ R.state = NoState) => R.output = GUIDANCE

\* C17: with two runs interleaved, every step writes one run's record only and leaves the
\* other run's untouched, and each run's state, prompts and final document are those of a
\* run alone on its own decision with the responses to its own calls.
C17_RunsOwnTheirState ==
    /\ [](\A r \in RunIds : OwnResult(r))
    /\ [][\E r \in RunIds : \A q \in RunIds \ {r} : runs'[q] = runs[q]]_vars

\* both runs are in the middle of a stage at the same time, on different decisions
C17_Witness ==
    /\ runs # <<>>
    /\ runs["A"].pc = "challenger" /\ runs["A"].llm = "loop"
    /\ runs["B"].pc = "explorer" /\ runs["B"].llm = "loop"
    /\ runs["A"].state["user_decision"] # runs["B"].state["user_decision"]
    /\ Slot(runs["A"].prompt, "ORIGINAL DECISION:") = Body(MinLen)
    /\ Slot(runs["B"].prompt, "ORIGINAL DECISION:") = Body(MinLen + 1)

\* ------------------------------------------------------------ current_step
Steps == << <<"starting">>, <<"clarified">>, <<"explored">>, <<"challenged">>, <<"complete">> >>

StepIndex(v) == Lo({ i \in 1..Len(Steps) : Steps[i] = v })

Started == state # NoState

\* C21: current_step is starting at initialization and moves one position along
\* starting, clarified, explored, challenged, complete with every completed stage, never
\* back and never past a position; final_synthesis is written only in the step that sets
\* current_step to complete; and a rendered document is returned only from a state whose
\* current_step is complete.
C21_StepAdvancesWithStages ==
    /\ [](Started =>
            /\ \E i \in 1..Len(Steps) : state["current_step"] = Steps[i]
            /\ StepIndex(state["current_step"]) = Len(merged) + 1
            /\ state["final_synthesis"] # <<>> <=> state["current_step"] = <<"complete">>)
    /\ []((pc = "returned" /\ IsDocument(output)) =>
            /\ Started
            /\ state["current_step"] = <<"complete">>
            /\ output = state["final_synthesis"])
    /\ [][ /\ (~Started /\ Started') => state'["current_step"] = <<"starting">>
           /\ (Started /\ state'["current_step"] # state["current_step"]) =>
                /\ StepIndex(state'["current_step"]) = StepIndex(state["current_step"]) + 1
                /\ Len(merged') = Len(merged) + 1
           /\ (Started /\ Len(merged') # Len(merged)) =>
                state'["current_step"] # state["current_step"]
           /\ (Started /\ state'["final_synthesis"] # state["final_synthesis"]) =>
                /\ state["current_step"] = <<"challenged">>
                /\ state'["current_step"] = <<"complete">> ]_vars

\* a run has returned its document from the state whose step is complete, the synthesizer
\* having been the only stage to write the document
C21_Witness ==
    /\ pc = "returned" /\ Started
    /\ state["current_step"] = <<"complete">>
    /\ NodesOf(merged) = StageOrder
    /\ \A i \in 1..Len(merged) :
            "final_synthesis" \in merged[i].keys <=> merged[i].node = "synthesizer"
    /\ IsDocument(output) /\ output = state["final_synthesis"]

====
